---- MODULE Spec2Model ----
(***************************************************************************)
(* Model of the pipeline validator of main.py: the request handler         *)
(* parse_pipeline and the cycle check is_dag (Kahn's algorithm).           *)
(*                                                                         *)
(* JSON values.  An identifier value is a string; ListVal stands for a     *)
(* JSON array used as a value, which Python cannot hash.  A list element   *)
(* is [isdict, val]: isdict says whether the element decodes to a dict,    *)
(* val is the dict (a function from its keys to values).  A document is    *)
(* [kind, items]: kind "invalid" is text json.loads rejects (the document   *)
(* then also holds that text), "scalar" a decoded value that is not a      *)
(* list, "list" a list with the given items.                               *)
(***************************************************************************)
EXTENDS Integers, Sequences, FiniteSets, TLC

\* ---- bounds of the explored inputs ----
MaxNodes == 2
MaxEdges == 2
MaxGraphEdges == 3

\* ---- JSON values ----
Ids == {"a", "b", "c"}
ListVal == "[]"
NoKeys == [x \in {} |-> ""]

Scalar == [isdict |-> FALSE, val |-> NoKeys]
EmptyDict == [isdict |-> TRUE, val |-> NoKeys]
Node(v) == [isdict |-> TRUE, val |-> [id |-> v]]
Edge(s, t) == [isdict |-> TRUE, val |-> [source |-> s, target |-> t]]
OnlySource(s) == [isdict |-> TRUE, val |-> [source |-> s]]
OnlyTarget(t) == [isdict |-> TRUE, val |-> [target |-> t]]

SeqsUpTo(S, n) == UNION {[1..m -> S] : m \in 0..n}

\* hash(v): Python raises TypeError for a list
Hashable(v) == v # ListVal

\* ---- Python dict with insertion order: a sequence of [k, v] entries ----
DictHas(d, k) == \E x \in DOMAIN d : d[x].k = k
DictGet(d, k) == d[CHOOSE x \in DOMAIN d : d[x].k = k].v
DictSet(d, k, v) ==
    IF DictHas(d, k)
    THEN [x \in DOMAIN d |-> IF d[x].k = k THEN [k |-> k, v |-> v] ELSE d[x]]
    ELSE Append(d, [k |-> k, v |-> v])
\* defaultdict(list).__getitem__: a missing key reads as the empty list
GraphGet(g, k) == IF DictHas(g, k) THEN DictGet(g, k) ELSE <<>>

\* ---- the checks of is_dag ----
BadNode(node) == ~node.isdict \/ "id" \notin DOMAIN node.val
BadEdge(edge) ==
    ~edge.isdict \/ "source" \notin DOMAIN edge.val \/ "target" \notin DOMAIN edge.val
\* `source not in in_degree or target not in in_degree`, left to right with
\* short circuit: the membership test hashes its operand first
EndpointRaises(d, s, t) == ~Hashable(s) \/ (DictHas(d, s) /\ ~Hashable(t))
EndpointMissing(d, s, t) == ~DictHas(d, s) \/ ~DictHas(d, t)

RECURSIVE SelectZero(_, _)
SelectZero(d, x) ==
    IF x > Len(d) THEN <<>>
    ELSE IF d[x].v = 0 THEN <<d[x].k>> \o SelectZero(d, x + 1)
    ELSE SelectZero(d, x + 1)
\* slip: every declared id is queued, whatever its in-degree
InitialQueue_all(d) == [x \in DOMAIN d |-> d[x].k]
InitialQueue(d) == SelectZero(d, 1)

\* one pass of the inner for loop: decrement, enqueue on zero
RelaxDegree(d, nb) == DictSet(d, nb, DictGet(d, nb) - 1)
\* slip: the target is queued on every decrement, not only on reaching zero
RelaxQueue_always(d, q, nb) == Append(q, nb)
RelaxQueue(d, q, nb) == IF DictGet(d, nb) - 1 = 0 THEN Append(q, nb) ELSE q

\* ---- responses ----
MsgEmpty == "Empty pipeline - no nodes or edges"
MsgNoNodes == "Invalid pipeline - edges exist without nodes"
MsgIsolated == "Pipeline contains only isolated nodes"
MsgCycles == "Pipeline contains cycles and is not a valid DAG"
MsgValid == "Valid pipeline structure"
ErrNodes == "Nodes data must be a list"
ErrEdges == "Edges data must be a list"
\* str(e) of the JSONDecodeError json.loads raises on the text
DecoderMessage(text) ==
    IF text = "" THEN "Expecting value: line 1 column 1 (char 0)"
    ELSE IF text = "[" THEN "Expecting value: line 1 column 2 (char 1)"
    ELSE "Expecting property name enclosed in double quotes: line 1 column 2 (char 1)"
ErrJson(text) == "Invalid JSON format: " \o DecoderMessage(text)
ErrProcessing == "Processing error: unhashable type: 'list'"

ErrorResponse(msg) == [error |-> msg]
\* slip: the test of the verdict is inverted
Message_inverted(num_nodes, num_edges, dag) ==
    IF num_nodes > 0 /\ num_edges = 0 THEN MsgIsolated
    ELSE IF dag THEN MsgCycles
    ELSE MsgValid
Message(num_nodes, num_edges, dag) ==
    IF num_nodes > 0 /\ num_edges = 0 THEN MsgIsolated
    ELSE IF ~dag THEN MsgCycles
    ELSE MsgValid
Result(num_nodes, num_edges, dag, msg) ==
    [num_nodes |-> num_nodes, num_edges |-> num_edges, is_dag |-> dag, message |-> msg]

\* ---- the requests explored ----
\* arbitrary lists: malformed elements, unhashable values, dangling edges
RawNodeElems == {Scalar, EmptyDict, Node("a"), Node("b"), Node(ListVal)}
RawEdgeVals == {"a", "b", ListVal}
RawEdgeElems ==
    {Scalar, EmptyDict, OnlySource("a"), OnlyTarget("a")}
        \cup {Edge(s, t) : s \in RawEdgeVals, t \in RawEdgeVals}
\* graphs: node records with pairwise distinct ids, edges between declared ids
GraphNodeElems == {Node(v) : v \in Ids}
IdsOf(ns) == {ns[x].val.id : x \in DOMAIN ns}
EdgesOver(S) == {Edge(s, t) : s \in S, t \in S}

ListDoc(items) == [kind |-> "list", items |-> items]
\* texts that json.loads rejects
InvalidTexts == {"", "[", "{"}
InvalidDoc(text) == [kind |-> "invalid", items |-> <<>>, text |-> text]
InvalidDocs == {InvalidDoc(t) : t \in InvalidTexts}
ScalarDoc == [kind |-> "scalar", items |-> <<>>]

RawDocs(elems, n) == InvalidDocs \cup {ScalarDoc} \cup {ListDoc(s) : s \in SeqsUpTo(elems, n)}
RawNodeDocs == RawDocs(RawNodeElems, MaxNodes)
RawEdgeDocs == RawDocs(RawEdgeElems, MaxEdges)
Distinct(ns) == \A x, y \in DOMAIN ns : ns[x] = ns[y] => x = y
GraphNodeLists == {ns \in SeqsUpTo(GraphNodeElems, Cardinality(Ids)) : Distinct(ns)}
GraphEdgeLists(ns) == SeqsUpTo(EdgesOver(IdsOf(ns)), MaxGraphEdges)

VARIABLES
    pc,             \* position in parse_pipeline / is_dag
    nodes, edges,   \* the two form fields, as documents
    in_degree,      \* dict id -> count, insertion ordered
    graph,          \* dict id -> list of targets
    i,              \* index of the for loops over nodes and edges
    queue,          \* the deque
    processed,
    current,        \* the id popped last
    nb,             \* index in graph[current] of the inner for loop
    enqueued,       \* every id ever put on the queue, in order
    is_dag_result,
    response

vars == <<pc, nodes, edges, in_degree, graph, i, queue, processed, current, nb,
          enqueued, is_dag_result, response>>

locals == <<in_degree, graph, i, queue, processed, current, nb, enqueued>>

nodes_data == nodes.items
edges_data == edges.items
num_nodes == Len(nodes_data)
num_edges == Len(edges_data)

Init ==
    /\ pc = "idle"
    /\ nodes = ScalarDoc
    /\ edges = ScalarDoc
    /\ in_degree = <<>>
    /\ graph = <<>>
    /\ i = 0
    /\ queue = <<>>
    /\ processed = 0
    /\ current = ""
    /\ nb = 0
    /\ enqueued = <<>>
    /\ is_dag_result = FALSE
    /\ response = NoKeys

Return(r) ==
    /\ response' = r
    /\ pc' = "returned"

\* POST /pipelines/parse arrives with its two form fields
Accept(nd, ed) ==
    /\ nodes' = nd
    /\ edges' = ed
    /\ pc' = "loads"
    /\ UNCHANGED <<locals, is_dag_result, response>>

Request ==
    /\ pc = "idle"
    /\ \/ \E nd \in RawNodeDocs, ed \in RawEdgeDocs : Accept(nd, ed)
       \/ \E ns \in GraphNodeLists :
            \E es \in GraphEdgeLists(ns) : Accept(ListDoc(ns), ListDoc(es))

\* json.loads(nodes) runs first, then json.loads(edges): the text that fails
FirstInvalid(nd, ed) == IF nd.kind = "invalid" THEN nd.text ELSE ed.text

\* json.loads raises JSONDecodeError on either field
DecodeError ==
    /\ pc = "loads"
    /\ nodes.kind = "invalid" \/ edges.kind = "invalid"
    /\ Return(ErrorResponse(ErrJson(FirstInvalid(nodes, edges))))
    /\ UNCHANGED <<nodes, edges, locals, is_dag_result>>

Decoded ==
    /\ pc = "loads"
    /\ nodes.kind # "invalid"
    /\ edges.kind # "invalid"

NodesNotList ==
    /\ Decoded
    /\ nodes.kind # "list"
    /\ Return(ErrorResponse(ErrNodes))
    /\ UNCHANGED <<nodes, edges, locals, is_dag_result>>

EdgesNotList ==
    /\ Decoded
    /\ nodes.kind = "list"
    /\ edges.kind # "list"
    /\ Return(ErrorResponse(ErrEdges))
    /\ UNCHANGED <<nodes, edges, locals, is_dag_result>>

BothLists ==
    /\ Decoded
    /\ nodes.kind = "list"
    /\ edges.kind = "list"

EmptyPipeline ==
    /\ BothLists
    /\ num_nodes = 0 /\ num_edges = 0
    /\ Return(Result(0, 0, TRUE, MsgEmpty))
    /\ UNCHANGED <<nodes, edges, locals, is_dag_result>>

\* slip: the shortcut is missing, and is_dag answers True for no nodes
EdgesWithoutNodes_fallthrough ==
    /\ BothLists
    /\ num_nodes = 0 /\ num_edges > 0
    /\ is_dag_result' = TRUE
    /\ pc' = "respond"
    /\ UNCHANGED <<nodes, edges, locals, response>>

EdgesWithoutNodes ==
    /\ BothLists
    /\ num_nodes = 0 /\ num_edges > 0
    /\ Return(Result(0, num_edges, FALSE, MsgNoNodes))
    /\ UNCHANGED <<nodes, edges, locals, is_dag_result>>

\* is_dag is entered; its return value goes to is_dag_result
IsDagReturn(v) ==
    /\ is_dag_result' = v
    /\ pc' = "respond"
    /\ UNCHANGED response

\* an exception inside is_dag unwinds to `except Exception`
Raise ==
    /\ Return(ErrorResponse(ErrProcessing))
    /\ UNCHANGED is_dag_result

\* slip: the nodes are validated before the test for no edges
IsDagTrivial_validated ==
    /\ BothLists
    /\ num_nodes # 0
    /\ num_edges = 0
    /\ IsDagReturn(\A x \in DOMAIN nodes_data : ~BadNode(nodes_data[x]))
    /\ UNCHANGED <<nodes, edges, locals>>

IsDagTrivial ==
    /\ BothLists
    /\ num_nodes # 0
    /\ num_edges = 0
    /\ IsDagReturn(TRUE)
    /\ UNCHANGED <<nodes, edges, locals>>

IsDagEnter ==
    /\ BothLists
    /\ num_nodes # 0
    /\ num_edges # 0
    /\ graph' = <<>>
    /\ in_degree' = <<>>
    /\ i' = 1
    /\ pc' = "for_node"
    /\ UNCHANGED <<nodes, edges, queue, processed, current, nb, enqueued,
                   is_dag_result, response>>

\* slip: a malformed node is skipped instead of ending the check
ForNodeBad_skipped ==
    /\ pc = "for_node"
    /\ i <= num_nodes
    /\ BadNode(nodes_data[i])
    /\ i' = i + 1
    /\ UNCHANGED <<pc, nodes, edges, in_degree, graph, queue, processed, current, nb,
                   enqueued, is_dag_result, response>>

ForNodeBad ==
    /\ pc = "for_node"
    /\ i <= num_nodes
    /\ BadNode(nodes_data[i])
    /\ IsDagReturn(FALSE)
    /\ UNCHANGED <<nodes, edges, locals>>

ForNodeRaise ==
    /\ pc = "for_node"
    /\ i <= num_nodes
    /\ ~BadNode(nodes_data[i])
    /\ ~Hashable(nodes_data[i].val.id)
    /\ Raise
    /\ UNCHANGED <<nodes, edges, locals>>

ForNode ==
    /\ pc = "for_node"
    /\ i <= num_nodes
    /\ ~BadNode(nodes_data[i])
    /\ Hashable(nodes_data[i].val.id)
    /\ in_degree' = DictSet(in_degree, nodes_data[i].val.id, 0)
    /\ i' = i + 1
    /\ UNCHANGED <<pc, nodes, edges, graph, queue, processed, current, nb, enqueued,
                   is_dag_result, response>>

ForNodeEnd ==
    /\ pc = "for_node"
    /\ i > num_nodes
    /\ i' = 1
    /\ pc' = "for_edge"
    /\ UNCHANGED <<nodes, edges, in_degree, graph, queue, processed, current, nb,
                   enqueued, is_dag_result, response>>

AtEdge ==
    /\ pc = "for_edge"
    /\ i <= num_edges

ForEdgeBad ==
    /\ AtEdge
    /\ BadEdge(edges_data[i])
    /\ IsDagReturn(FALSE)
    /\ UNCHANGED <<nodes, edges, locals>>

ForEdgeRaise ==
    /\ AtEdge
    /\ ~BadEdge(edges_data[i])
    /\ EndpointRaises(in_degree, edges_data[i].val.source, edges_data[i].val.target)
    /\ Raise
    /\ UNCHANGED <<nodes, edges, locals>>

ForEdgeMissing ==
    /\ AtEdge
    /\ ~BadEdge(edges_data[i])
    /\ ~EndpointRaises(in_degree, edges_data[i].val.source, edges_data[i].val.target)
    /\ EndpointMissing(in_degree, edges_data[i].val.source, edges_data[i].val.target)
    /\ IsDagReturn(FALSE)
    /\ UNCHANGED <<nodes, edges, locals>>

ForEdge ==
    /\ AtEdge
    /\ ~BadEdge(edges_data[i])
    /\ ~EndpointRaises(in_degree, edges_data[i].val.source, edges_data[i].val.target)
    /\ ~EndpointMissing(in_degree, edges_data[i].val.source, edges_data[i].val.target)
    /\ LET source == edges_data[i].val.source
           target == edges_data[i].val.target
       IN /\ graph' = DictSet(graph, source, Append(GraphGet(graph, source), target))
          /\ in_degree' = DictSet(in_degree, target, DictGet(in_degree, target) + 1)
    /\ i' = i + 1
    /\ UNCHANGED <<pc, nodes, edges, queue, processed, current, nb, enqueued,
                   is_dag_result, response>>

\* queue = deque(ids of in-degree 0); processed = 0
QueueInit ==
    /\ pc = "for_edge"
    /\ i > num_edges
    /\ queue' = InitialQueue(in_degree)
    /\ enqueued' = InitialQueue(in_degree)
    /\ processed' = 0
    /\ pc' = "while"
    /\ UNCHANGED <<nodes, edges, in_degree, graph, i, current, nb, is_dag_result, response>>

\* current = queue.popleft(); processed += 1; graph[current] is read
Popleft ==
    /\ pc = "while"
    /\ queue # <<>>
    /\ current' = Head(queue)
    /\ queue' = Tail(queue)
    /\ processed' = processed + 1
    /\ graph' = IF DictHas(graph, Head(queue)) THEN graph
                ELSE DictSet(graph, Head(queue), <<>>)
    /\ nb' = 1
    /\ pc' = "for_neighbor"
    /\ UNCHANGED <<nodes, edges, in_degree, i, enqueued, is_dag_result, response>>

ForNeighbor ==
    /\ pc = "for_neighbor"
    /\ nb <= Len(GraphGet(graph, current))
    /\ LET neighbor == GraphGet(graph, current)[nb]
       IN /\ in_degree' = RelaxDegree(in_degree, neighbor)
          /\ queue' = RelaxQueue(in_degree, queue, neighbor)
          /\ enqueued' = RelaxQueue(in_degree, enqueued, neighbor)
    /\ nb' = nb + 1
    /\ UNCHANGED <<pc, nodes, edges, graph, i, processed, current, is_dag_result, response>>

ForNeighborEnd ==
    /\ pc = "for_neighbor"
    /\ nb > Len(GraphGet(graph, current))
    /\ pc' = "while"
    /\ UNCHANGED <<nodes, edges, locals, is_dag_result, response>>

\* return processed == len(nodes)
WhileEnd ==
    /\ pc = "while"
    /\ queue = <<>>
    /\ IsDagReturn(processed = num_nodes)
    /\ UNCHANGED <<nodes, edges, locals>>

\* the response is built from the counts and is_dag_result
Respond ==
    /\ pc = "respond"
    /\ Return(Result(num_nodes, num_edges, is_dag_result,
                     Message(num_nodes, num_edges, is_dag_result)))
    /\ UNCHANGED <<nodes, edges, locals, is_dag_result>>

Next ==
    \/ Request
    \/ DecodeError
    \/ NodesNotList
    \/ EdgesNotList
    \/ EmptyPipeline
    \/ EdgesWithoutNodes
    \/ IsDagTrivial
    \/ IsDagEnter
    \/ ForNodeBad
    \/ ForNodeRaise
    \/ ForNode
    \/ ForNodeEnd
    \/ ForEdgeBad
    \/ ForEdgeRaise
    \/ ForEdgeMissing
    \/ ForEdge
    \/ QueueInit
    \/ Popleft
    \/ ForNeighbor
    \/ ForNeighborEnd
    \/ WhileEnd
    \/ Respond

Spec == Init /\ [][Next]_vars

(***************************************************************************)
(* The same code as functions of the request, for statements that compare  *)
(* two calls.  is_dag yields [raised, value]: raised when a TypeError      *)
(* leaves the function, value its return value otherwise.                  *)
(***************************************************************************)
Returns(v) == [raised |-> FALSE, value |-> v]
Raised == [raised |-> TRUE, value |-> FALSE]

\* the inner for loop over graph[current], from index x
RECURSIVE relax(_, _, _, _)
relax(d, q, targets, x) ==
    IF x > Len(targets) THEN [d |-> d, q |-> q]
    ELSE relax(RelaxDegree(d, targets[x]), RelaxQueue(d, q, targets[x]), targets, x + 1)

\* the while loop; yields the final value of processed
RECURSIVE drain(_, _, _, _)
drain(d, g, q, done) ==
    IF q = <<>> THEN done
    ELSE LET r == relax(d, Tail(q), GraphGet(g, Head(q)), 1)
         IN drain(r.d, g, r.q, done + 1)

\* the for loop over edges, from index x, then the queue
RECURSIVE build(_, _, _, _, _)
build(ns, es, d, g, x) ==
    IF x > Len(es) THEN Returns(drain(d, g, InitialQueue(d), 0) = Len(ns))
    ELSE IF BadEdge(es[x]) THEN Returns(FALSE)
    ELSE IF EndpointRaises(d, es[x].val.source, es[x].val.target) THEN Raised
    ELSE IF EndpointMissing(d, es[x].val.source, es[x].val.target) THEN Returns(FALSE)
    ELSE build(ns, es,
               DictSet(d, es[x].val.target, DictGet(d, es[x].val.target) + 1),
               DictSet(g, es[x].val.source,
                       Append(GraphGet(g, es[x].val.source), es[x].val.target)),
               x + 1)

\* the for loop over nodes, from index x, then the edges
RECURSIVE declare(_, _, _, _)
declare(ns, es, d, x) ==
    IF x > Len(ns) THEN build(ns, es, d, <<>>, 1)
    ELSE IF BadNode(ns[x]) THEN Returns(FALSE)
    ELSE IF ~Hashable(ns[x].val.id) THEN Raised
    ELSE declare(ns, es, DictSet(d, ns[x].val.id, 0), x + 1)

is_dag(ns, es) ==
    IF ns = <<>> THEN Returns(TRUE)
    ELSE IF es = <<>> THEN Returns(TRUE)
    ELSE declare(ns, es, <<>>, 1)

parse_pipeline(nd, ed) ==
    IF nd.kind = "invalid" \/ ed.kind = "invalid" THEN ErrorResponse(ErrJson(FirstInvalid(nd, ed)))
    ELSE IF nd.kind # "list" THEN ErrorResponse(ErrNodes)
    ELSE IF ed.kind # "list" THEN ErrorResponse(ErrEdges)
    ELSE IF Len(nd.items) = 0 /\ Len(ed.items) = 0 THEN Result(0, 0, TRUE, MsgEmpty)
    ELSE IF Len(nd.items) = 0 /\ Len(ed.items) > 0
         THEN Result(0, Len(ed.items), FALSE, MsgNoNodes)
    ELSE LET r == is_dag(nd.items, ed.items)
         IN IF r.raised THEN ErrorResponse(ErrProcessing)
            ELSE Result(Len(nd.items), Len(ed.items), r.value,
                        Message(Len(nd.items), Len(ed.items), r.value))

\* ---- vocabulary of the properties ----
Returned == pc = "returned"
IsResult == Returned /\ "is_dag" \in DOMAIN response
ListsGiven == nodes.kind = "list" /\ edges.kind = "list"

\* the step-by-step handler and the function agree on every request
StepsAgree == Returned => response = parse_pipeline(nodes, edges)

\* ---- the graph a request describes ----
Range(f) == {f[x] : x \in DOMAIN f}
DeclaredIds == {n.val.id : n \in {m \in Range(nodes_data) : ~BadNode(m)}}
Arcs == {<<e.val.source, e.val.target>> : e \in {f \in Range(edges_data) : ~BadEdge(f)}}
NodesWellFormed ==
    /\ num_nodes > 0
    /\ \A x \in DOMAIN nodes_data :
        ~BadNode(nodes_data[x]) /\ nodes_data[x].val.id \in Ids
EdgeWellFormed(e) ==
    ~BadEdge(e) /\ e.val.source \in DeclaredIds /\ e.val.target \in DeclaredIds
WellFormed ==
    /\ ListsGiven
    /\ NodesWellFormed
    /\ \A x, y \in DOMAIN nodes_data :
        nodes_data[x].val.id = nodes_data[y].val.id => x = y
    /\ num_edges > 0
    /\ \A x \in DOMAIN edges_data : EdgeWellFormed(edges_data[x])

\* ids reachable from the set S along arcs, S included
RECURSIVE Grow(_, _)
Grow(S, arcs) ==
    LET T == S \cup {a[2] : a \in {b \in arcs : b[1] \in S}}
    IN IF T = S THEN S ELSE Grow(T, arcs)
\* ids reachable from v by a path of at least one arc
ReachFrom(v, arcs) == Grow({a[2] : a \in {b \in arcs : b[1] = v}}, arcs)
HasCycle(arcs) == \E a \in arcs : a[1] \in ReachFrom(a[1], arcs)
Touched(arcs) == {a[1] : a \in arcs} \cup {a[2] : a \in arcs}

\* C1: on a well-formed request (distinct declared ids, every edge between
\* declared ids, at least one node and one edge) the response is a result whose
\* is_dag is true exactly when the graph has no directed cycle.
C1_VerdictIffAcyclic ==
    (Returned /\ WellFormed) =>
        /\ IsResult
        /\ response.is_dag <=> ~HasCycle(Arcs)

\* a cycle between two ids while a third declared id touches no edge
C1_Witness ==
    /\ Returned
    /\ WellFormed
    /\ HasCycle(Arcs)
    /\ \A a \in Arcs : a[1] # a[2]
    /\ DeclaredIds \ Touched(Arcs) # {}
    /\ response.is_dag = FALSE

\* C2 (as claimed): the response is an error only for a field that does not
\* decode or does not decode to a list, with the fixed messages; two decoded
\* lists always give a result with the four result fields.
C2_ErrorsOnlyForDecodeOrShape ==
    Returned =>
        IF nodes.kind = "invalid" \/ edges.kind = "invalid"
        THEN response = ErrorResponse(ErrJson(FirstInvalid(nodes, edges)))
        ELSE IF nodes.kind # "list" THEN response = ErrorResponse(ErrNodes)
        ELSE IF edges.kind # "list" THEN response = ErrorResponse(ErrEdges)
        ELSE DOMAIN response = {"num_nodes", "num_edges", "is_dag", "message"}

HasBadNode == \E x \in DOMAIN nodes_data : BadNode(nodes_data[x])
\* the first node at which the loop over nodes stops
FirstStop ==
    CHOOSE x \in DOMAIN nodes_data :
        /\ BadNode(nodes_data[x]) \/ ~Hashable(nodes_data[x].val.id)
        /\ \A y \in 1..(x - 1) :
            ~BadNode(nodes_data[y]) /\ Hashable(nodes_data[y].val.id)

\* C3 (as claimed): a non-empty node list with a malformed element gives
\* is_dag = false whatever the edge list is, the empty one included.
C3_BadNodeAlwaysFalse ==
    (Returned /\ ListsGiven /\ num_nodes > 0 /\ HasBadNode) =>
        IsResult /\ response.is_dag = FALSE

\* C3 (amended): with a malformed node and a non-empty edge list the response
\* is never is_dag = true: it is the is_dag = false result with the cycles
\* message when the loop over nodes reaches the malformed node, and the
\* processing error when a node before it carries an unhashable id.
C3_BadNodeWithEdges ==
    (Returned /\ ListsGiven /\ num_nodes > 0 /\ HasBadNode /\ num_edges > 0) =>
        IF BadNode(nodes_data[FirstStop])
        THEN response = Result(num_nodes, num_edges, FALSE, MsgCycles)
        ELSE response = ErrorResponse(ErrProcessing)

\* the malformed node is the second one, after a well-formed node
C3_Witness ==
    /\ Returned
    /\ ListsGiven
    /\ num_nodes = 2
    /\ ~BadNode(nodes_data[1])
    /\ BadNode(nodes_data[2])
    /\ num_edges > 0
    /\ IsResult
    /\ response.is_dag = FALSE

HasBadEdge == \E x \in DOMAIN edges_data : ~EdgeWellFormed(edges_data[x])

\* C4 (as claimed): well-formed nodes and an edge that is malformed or has an
\* endpoint that is no declared id give the is_dag = false result with the
\* cycles message, wherever the edge stands.
C4_BadEdgeAlwaysFalse ==
    (Returned /\ ListsGiven /\ NodesWellFormed /\ HasBadEdge) =>
        response = Result(num_nodes, num_edges, FALSE, MsgCycles)

\* C5: nodes without edges are a DAG, whatever the node elements are.
C5_IsolatedNodes ==
    (Returned /\ ListsGiven /\ num_nodes > 0 /\ num_edges = 0) =>
        response = Result(num_nodes, 0, TRUE, MsgIsolated)

\* two nodes without edges, one of them malformed
C5_Witness ==
    /\ Returned
    /\ ListsGiven
    /\ num_nodes = 2
    /\ num_edges = 0
    /\ HasBadNode
    /\ response.is_dag = TRUE

\* C6: with an empty node list the handler never enters is_dag and answers
\* from the two shortcuts alone, whatever the edge elements are.
C6_EmptyNodesShortcut ==
    (pc # "idle" /\ ListsGiven /\ num_nodes = 0) =>
        /\ pc \in {"loads", "returned"}
        /\ in_degree = <<>> /\ graph = <<>> /\ processed = 0 /\ i = 0
        /\ Returned =>
            response = IF num_edges = 0
                       THEN Result(0, 0, TRUE, MsgEmpty)
                       ELSE Result(0, num_edges, FALSE, MsgNoNodes)

\* no nodes and two edges, one of them not even a record
C6_Witness ==
    /\ Returned
    /\ ListsGiven
    /\ num_nodes = 0
    /\ num_edges = 2
    /\ \E x \in DOMAIN edges_data : ~edges_data[x].isdict
    /\ response.is_dag = FALSE

\* C7: past the shortcuts the message follows from the edge count and the
\* verdict: isolated nodes for no edges, else cycles for is_dag = false, else
\* valid; the isolated-nodes message never comes with is_dag = false.
C7_MessagePriority ==
    (IsResult /\ ListsGiven /\ num_nodes > 0) =>
        /\ response.num_edges = 0 => response.message = MsgIsolated
        /\ (response.num_edges # 0 /\ ~response.is_dag) => response.message = MsgCycles
        /\ (response.num_edges # 0 /\ response.is_dag) => response.message = MsgValid
        /\ response.num_edges # 0 => (response.is_dag <=> response.message = MsgValid)
        /\ ~(response.message = MsgIsolated /\ ~response.is_dag)

\* a DAG with edges, reported as valid
C7_Witness ==
    /\ IsResult
    /\ ListsGiven
    /\ num_nodes > 0
    /\ num_edges > 0
    /\ response.is_dag = TRUE
    /\ response.message = MsgValid

Permuted(es, p) == [x \in DOMAIN es |-> es[p[x]]]
SameVerdict(r1, r2) ==
    /\ "is_dag" \in DOMAIN r1 <=> "is_dag" \in DOMAIN r2
    /\ ("is_dag" \in DOMAIN r1 /\ "is_dag" \in DOMAIN r2) =>
        /\ r1.is_dag = r2.is_dag
        /\ r1.num_nodes = r2.num_nodes
        /\ r1.num_edges = r2.num_edges

\* C8 (as claimed): every permutation of the edge list gives the same is_dag
\* and the same counts as the order given.
C8_EdgeOrderIrrelevant ==
    (Returned /\ ListsGiven) =>
        \A p \in Permutations(DOMAIN edges_data) :
            SameVerdict(response, parse_pipeline(nodes, ListDoc(Permuted(edges_data, p))))

NoRepeat(q) == \A x, y \in DOMAIN q : q[x] = q[y] => x = y
DistinctIds == Cardinality({in_degree[x].k : x \in DOMAIN in_degree})
InLoop == pc \in {"while", "for_neighbor"}
LoopStep == Popleft \/ ForNeighbor \/ ForNeighborEnd \/ WhileEnd
\* what is left to do: ids not yet taken off the queue, then the targets of
\* the current id not yet visited
LoopRank ==
    IF pc = "while" THEN (DistinctIds - processed) * (num_edges + 2) + 1
    ELSE IF pc = "for_neighbor"
    THEN (DistinctIds - processed) * (num_edges + 2) + 2
            + (Len(GraphGet(graph, current)) - nb + 1)
    ELSE 0
LoopSafe ==
    /\ NoRepeat(enqueued)
    /\ queue = SubSeq(enqueued, processed + 1, Len(enqueued))
    /\ \A x \in DOMAIN in_degree : in_degree[x].v >= 0
    /\ processed <= DistinctIds
    /\ LoopRank >= 0
    /\ InLoop => ENABLED LoopStep

\* C9: the queue loop ends (it can always take a step, and every step lowers
\* LoopRank, which stays a natural number); no id is put on the queue twice (so
\* none is taken off twice: the queue is what is left of the ids put on it), no
\* in-degree goes below zero, and processed never exceeds the number of
\* distinct ids.
C9_LoopBoundedAndEnds ==
    /\ []LoopSafe
    /\ [][InLoop => LoopRank' < LoopRank]_vars

\* parallel edges into an id that also has a self-loop: the loop has run and
\* left that id unprocessed
C9_Witness ==
    /\ Returned
    /\ processed >= 1
    /\ processed < num_nodes
    /\ \E x, y \in DOMAIN edges_data : x # y /\ edges_data[x] = edges_data[y]
    /\ \E a \in Arcs : a[1] = a[2]

SharedId ==
    \E x, y \in DOMAIN nodes_data :
        /\ x # y
        /\ ~BadNode(nodes_data[x]) /\ ~BadNode(nodes_data[y])
        /\ nodes_data[x].val.id \in Ids
        /\ nodes_data[x].val.id = nodes_data[y].val.id

\* C10 (as claimed): two well-formed nodes with the same id give
\* is_dag = false with any non-empty edge list and is_dag = true with none.
C10_SharedIdVerdict ==
    (Returned /\ ListsGiven /\ SharedId) =>
        /\ IsResult
        /\ response.is_dag <=> num_edges = 0
====
